---- MODULE Spec2Model ----
(***************************************************************************)
(* SwapiClient: one generator, _list_people, walks the pages of            *)
(* <endpoint>/people; two wrappers drive it, _sync_wrapper.inner over the  *)
(* blocking httpx.Client and _async_wrapper.inner over httpx.AsyncClient.  *)
(* Spec runs one fetch per driver against one server, SpecConcurrent any   *)
(* two of three fetches (two of them non-blocking, on one transport); for  *)
(* each fetch the model keeps what crossed the generator and the wire.     *)
(***************************************************************************)
EXTENDS Integers, Sequences, FiniteSets, TLC

\* ------------------------------------------------------------------ bounds
\* Pages the server has (URLs it can name in `next`).
MaxPages == 3
\* Requests one fetch may issue before the model stops following it
\* (a cyclic `next` chain never ends by itself).
MaxRequests == 3

\* ------------------------------------------------------------- the server
endpoint == "https://swapi.dev/api"

\* JSON null, as the value of `next`.
Null == "<null>"

PageUrl(k) ==
    IF k = 1 THEN endpoint \o "/people"
    ELSE endpoint \o "/people/?page=" \o ToString(k)

Urls == {PageUrl(k) : k \in 1..MaxPages}

\* Raw entries of a `results` array: two complete ones (one with a field the
\* record type does not have) and two that lack a required field.
Luke == [name |-> "Luke", homeworld |-> "Tatooine", height |-> "172"]
Leia == [name |-> "Leia", homeworld |-> "Alderaan"]
NoHomeworld == [name |-> "R2-D2"]
NoName == [homeworld |-> "Naboo"]

ResultLists ==
    {<<>>, <<Luke>>, <<Luke, Leia>>, <<Leia, Luke>>,
     <<Luke, NoHomeworld>>, <<NoName>>}

\* The `next` values the page at the k-th URL may carry: null, the empty
\* string, the following page, or the first page again (a cycle).
NextValues(k) ==
    {Null, "", PageUrl(1)} \cup (IF k < MaxPages THEN {PageUrl(k + 1)} ELSE {})

\* Bodies: with both fields, without `next`, without `results`.
Contents(k) ==
    {[results |-> r, next |-> n] : r \in ResultLists, n \in NextValues(k)}
    \cup {[results |-> r] : r \in {<<Luke>>, <<Luke, Leia>>}}
    \cup {[next |-> Null]}

ErrorContents(k) ==
    {[results |-> <<Luke>>, next |-> n] : n \in NextValues(k) \ {""}}
    \cup {[results |-> <<NoName>>, next |-> Null], [detail |-> "Not found"]}

\* What the server may answer at the k-th URL.
Pages(k) ==
    [status_code : {200}, content : Contents(k)]
    \cup [status_code : {301, 404}, content : ErrorContents(k)]

PagesAt(url) ==
    IF url \in Urls
    THEN UNION {Pages(k) : k \in {j \in 1..MaxPages : PageUrl(j) = url}}
    ELSE [status_code : {404}, content : {[detail |-> "Not found"]}]

\* Errors the transport's send can raise while a request is in flight,
\* cancellation of the enclosing call or task among them.
TransportErrors == {"ConnectError", "Cancelled"}

\* ------------------------------------------------------------ domain model
Person(name, homeworld) == [name |-> name, homeworld |-> homeworld]

Request(method, url) == [method |-> method, url |-> url]

None == [none |-> TRUE]

\* ---------------------------------------------------------------- fetches
SyncFetches == {"list_people"}
AsyncFetches == {"list_people_async", "list_people_async_2"}
Fetches == SyncFetches \cup AsyncFetches

VARIABLES
    client,     \* the SwapiClient: its two transports
    server,     \* URL -> page, fixed the first time a URL is requested
    wire,       \* transport -> requests sent and not yet answered
    pc,         \* position of each driver ("never": the call is not made)
    gen,        \* the generator object i: its locals url and people
    request,    \* the driver's local `request`
    response,   \* the driver's local `response`
    outcome,    \* what the call gave its caller
    yielded,    \* requests the generator yielded, in order
    sent,       \* requests handed to a transport, in order
    received,   \* what the transport gave back, in order
    resumed     \* responses sent into the generator, in order

vars == <<client, server, wire, pc, gen, request, response, outcome,
          yielded, sent, received, resumed>>

Transports == {"httpx.Client", "httpx.AsyncClient"}

\* A fresh client and the calls that will be made on it.
InitWith(calls) ==
    /\ client = [sync_client |-> "httpx.Client", async_client |-> "httpx.AsyncClient"]
    /\ server = <<>>
    /\ wire = [t \in Transports |-> {}]
    /\ pc = [f \in Fetches |-> IF f \in calls THEN "idle" ELSE "never"]
    /\ gen = [f \in Fetches |-> None]
    /\ request = [f \in Fetches |-> None]
    /\ response = [f \in Fetches |-> None]
    /\ outcome = [f \in Fetches |-> [kind |-> "pending"]]
    /\ yielded = [f \in Fetches |-> <<>>]
    /\ sent = [f \in Fetches |-> <<>>]
    /\ received = [f \in Fetches |-> <<>>]
    /\ resumed = [f \in Fetches |-> <<>>]

\* One blocking and one non-blocking fetch.
Init == InitWith({"list_people", "list_people_async"})

\* Any two fetches on the same client, two non-blocking ones among them.
InitConcurrent ==
    \E calls \in SUBSET Fetches : Cardinality(calls) = 2 /\ InitWith(calls)


\* ------------------------------------------------- the generator's pieces
\* Faulty variant: only 4xx and 5xx count as failures
is_success_below_400(status_code) == status_code < 400

\* httpx: a response is a success when its status is 2xx.
is_success(status_code) == status_code \in 200..299

\* response.raise_for_status(): the error carries the status and the URL of
\* the request the response answers.
raise_for_status(resp) ==
    IF is_success(resp.status_code) THEN [ok |-> TRUE]
    ELSE [ok |-> FALSE,
          error |-> [kind |-> "HTTPStatusError",
                     status |-> resp.status_code,
                     url |-> resp.request.url]]

\* response.json(): the decoded body.
json(resp) == resp.content

\* A call's result: a value, or the exception it raised.
Ok(value) == [ok |-> TRUE, value |-> value]
Err(error) == [ok |-> FALSE, error |-> error]

\* cattrs can build a Person from an entry that has both fields.
structurable(entry) == {"name", "homeworld"} \subseteq DOMAIN entry

\* Faulty variant: entries without a required field are skipped
structure_skips(results) ==
    LET good == SelectSeq(results, structurable) IN
    Ok([n \in 1..Len(good) |-> Person(good[n].name, good[n].homeworld)])

\* cattrs.structure(results, list[Person]): one Person per entry, in the
\* order of the array; fields the type does not have are dropped; an entry
\* without a required field fails the whole call.
structure(results) ==
    IF \E n \in 1..Len(results) : ~structurable(results[n])
    THEN Err([kind |-> "IterableValidationError"])
    ELSE Ok([n \in 1..Len(results) |->
                Person(results[n].name, results[n].homeworld)])

\* Faulty variant: the new page's records are put in front of the accumulator
extend_prepends(people, more) == more \o people

\* Faulty variant: the accumulator is replaced by the new page's records
extend_replaces(people, more) == more

\* people.extend(more)
extend(people, more) == people \o more

\* Faulty variant: only the empty string ends the walk
falsy_only_empty(url) == url = ""

\* Faulty variant: `url is None`: only null ends the walk
falsy_only_null(url) == url = Null

\* `not url`: None and the empty string are falsy.
falsy(url) == url = Null \/ url = ""

\* Faulty variant: content.get("next"): a body without `next` reads as null
getitem_get(content, key) ==
    IF key \in DOMAIN content THEN Ok(content[key])
    ELSE IF key = "next" THEN Ok(Null)
    ELSE Err([kind |-> "KeyError", key |-> key])

\* content[key]: a KeyError when the body has no such field.
getitem(content, key) ==
    IF key \in DOMAIN content THEN Ok(content[key])
    ELSE Err([kind |-> "KeyError", key |-> key])

Yield(req, g) == [kind |-> "yield", value |-> req, gen |-> g]
Return(value, g) == [kind |-> "return", value |-> value, gen |-> g]
Raise(error, g) == [kind |-> "raise", error |-> error, gen |-> g]

\* Faulty variant: the walk starts at the endpoint itself
_list_people_next_at_endpoint ==
    Yield(Request("GET", endpoint), [url |-> endpoint, people |-> <<>>])

\* next(i): the generator runs from its start to the first yield.
_list_people_next ==
    LET url == endpoint \o "/people"
        people == <<>>
    IN Yield(Request("GET", url), [url |-> url, people |-> people])

\* Faulty variant: the body is decoded before the status is looked at
_list_people_send_decodes_first(g, resp) ==
    LET content == json(resp)
        results == getitem(content, "results")
    IN
    IF ~results.ok THEN Raise(results.error, g)
    ELSE
    LET more == structure(results.value) IN
    IF ~more.ok THEN Raise(more.error, g)
    ELSE
    LET people == extend(g.people, more.value)
        status == raise_for_status(resp)
    IN
    IF ~status.ok THEN Raise(status.error, [g EXCEPT !.people = people])
    ELSE
    LET url == getitem(content, "next") IN
    IF ~url.ok THEN Raise(url.error, [g EXCEPT !.people = people])
    ELSE IF falsy(url.value)
         THEN Return(people, [url |-> url.value, people |-> people])
         ELSE Yield(Request("GET", url.value),
                    [url |-> url.value, people |-> people])

\* Faulty variant: a page without records ends the walk
_list_people_send_stops_on_empty(g, resp) ==
    LET status == raise_for_status(resp) IN
    IF ~status.ok THEN Raise(status.error, g)
    ELSE
    LET content == json(resp)
        results == getitem(content, "results")
    IN
    IF ~results.ok THEN Raise(results.error, g)
    ELSE
    LET more == structure(results.value) IN
    IF ~more.ok THEN Raise(more.error, g)
    ELSE
    LET people == extend(g.people, more.value)
        url == getitem(content, "next")
    IN
    IF ~url.ok THEN Raise(url.error, [g EXCEPT !.people = people])
    ELSE IF falsy(url.value) \/ more.value = <<>>
         THEN Return(people, [url |-> url.value, people |-> people])
         ELSE Yield(Request("GET", url.value),
                    [url |-> url.value, people |-> people])

\* Faulty variant: a `next` that names the page just read ends the walk
_list_people_send_stops_on_revisit(g, resp) ==
    LET status == raise_for_status(resp) IN
    IF ~status.ok THEN Raise(status.error, g)
    ELSE
    LET content == json(resp)
        results == getitem(content, "results")
    IN
    IF ~results.ok THEN Raise(results.error, g)
    ELSE
    LET more == structure(results.value) IN
    IF ~more.ok THEN Raise(more.error, g)
    ELSE
    LET people == extend(g.people, more.value)
        url == getitem(content, "next")
    IN
    IF ~url.ok THEN Raise(url.error, [g EXCEPT !.people = people])
    ELSE IF falsy(url.value) \/ url.value = g.url
         THEN Return(people, [url |-> url.value, people |-> people])
         ELSE Yield(Request("GET", url.value),
                    [url |-> url.value, people |-> people])

\* i.send(resp): the generator runs from the yield to the next yield, to
\* its return or to an exception.
_list_people_send(g, resp) ==
    LET status == raise_for_status(resp) IN
    IF ~status.ok THEN Raise(status.error, g)
    ELSE
    LET content == json(resp)
        results == getitem(content, "results")
    IN
    IF ~results.ok THEN Raise(results.error, g)
    ELSE
    LET more == structure(results.value) IN
    IF ~more.ok THEN Raise(more.error, g)
    ELSE
    LET people == extend(g.people, more.value)
        url == getitem(content, "next")
    IN
    IF ~url.ok THEN Raise(url.error, [g EXCEPT !.people = people])
    ELSE IF falsy(url.value)
         THEN Return(people, [url |-> url.value, people |-> people])
         ELSE Yield(Request("GET", url.value),
                    [url |-> url.value, people |-> people])

\* ------------------------------------------------------------ the drivers
Append1(log, f, v) == [log EXCEPT ![f] = Append(@, v)]

\* i = f(self); request = next(i)
Call(f) ==
    LET step == _list_people_next IN
    /\ pc[f] = "idle"
    /\ gen' = [gen EXCEPT ![f] = step.gen]
    /\ request' = [request EXCEPT ![f] = step.value]
    /\ yielded' = Append1(yielded, f, step.value)
    /\ pc' = [pc EXCEPT ![f] = "send"]
    /\ UNCHANGED <<client, server, wire, response, outcome, sent, received, resumed>>

\* transport.send(request) is called: the request is on the wire and the
\* driver waits for the answer.
Send(f, transport) ==
    /\ pc[f] = "send"
    /\ wire' = [wire EXCEPT ![transport] = @ \cup {[fetch |-> f, n |-> Len(sent[f]) + 1,
                                                      request |-> request[f]]}]
    /\ sent' = Append1(sent, f, [transport |-> transport, request |-> request[f]])
    /\ pc' = [pc EXCEPT ![f] = "await"]
    /\ UNCHANGED <<client, server, gen, request, response, outcome, yielded, received, resumed>>

\* Faulty variant: the driver takes whatever answer its transport has next,
\* whichever fetch asked
Reply_any(f, transport) ==
    /\ pc[f] = "await"
    /\ \E m \in wire[transport] :
        \E page \in (IF m.request.url \in DOMAIN server
                     THEN {server[m.request.url]}
                     ELSE PagesAt(m.request.url)) :
            LET resp == [status_code |-> page.status_code,
                         content |-> page.content,
                         request |-> m.request]
            IN
            /\ server' = (IF m.request.url \in DOMAIN server THEN server
                          ELSE server @@ (m.request.url :> page))
            /\ wire' = [wire EXCEPT ![transport] = @ \ {m}]
            /\ response' = [response EXCEPT ![f] = resp]
            /\ received' = Append1(received, f, resp)
    /\ pc' = [pc EXCEPT ![f] = "resume"]
    /\ UNCHANGED <<client, gen, request, outcome, yielded, sent, resumed>>

\* transport.send(request) returns: the server's page for the request's URL,
\* as a response that names the request it answers.
Reply(f, transport) ==
    /\ pc[f] = "await"
    /\ \E m \in wire[transport] :
        /\ m.fetch = f
        /\ \E page \in (IF m.request.url \in DOMAIN server
                        THEN {server[m.request.url]}
                        ELSE PagesAt(m.request.url)) :
            LET resp == [status_code |-> page.status_code,
                         content |-> page.content,
                         request |-> m.request]
            IN
            /\ server' = (IF m.request.url \in DOMAIN server THEN server
                          ELSE server @@ (m.request.url :> page))
            /\ wire' = [wire EXCEPT ![transport] = @ \ {m}]
            /\ response' = [response EXCEPT ![f] = resp]
            /\ received' = Append1(received, f, resp)
    /\ pc' = [pc EXCEPT ![f] = "resume"]
    /\ UNCHANGED <<client, gen, request, outcome, yielded, sent, resumed>>

\* transport.send(request) raises (or the call or task is cancelled while it
\* waits): nothing in inner catches it, so it leaves inner as it is.
SendRaises(f, transport) ==
    /\ pc[f] = "await"
    /\ \E m \in wire[transport], e \in TransportErrors :
        /\ m.fetch = f
        /\ wire' = [wire EXCEPT ![transport] = @ \ {m}]
        /\ received' = Append1(received, f, [raised |-> e])
        /\ outcome' = [outcome EXCEPT ![f] = [kind |-> "raised", error |-> [kind |-> e]]]
    /\ pc' = [pc EXCEPT ![f] = "failed"]
    /\ UNCHANGED <<client, server, gen, request, response, yielded, sent, resumed>>

\* try: request = i.send(response) / except StopIteration as e: return e.value
\* Any other exception of the generator leaves inner.
Resume(f, resp) ==
    LET step == _list_people_send(gen[f], resp) IN
    /\ pc[f] = "resume"
    /\ step.kind = "yield" => Len(yielded[f]) < MaxRequests
    /\ resumed' = Append1(resumed, f, resp)
    /\ gen' = [gen EXCEPT ![f] = step.gen]
    /\ CASE step.kind = "yield" ->
              /\ request' = [request EXCEPT ![f] = step.value]
              /\ yielded' = Append1(yielded, f, step.value)
              /\ pc' = [pc EXCEPT ![f] = "send"]
              /\ UNCHANGED outcome
         [] step.kind = "return" ->
              /\ outcome' = [outcome EXCEPT ![f] = [kind |-> "returned", value |-> step.value]]
              /\ pc' = [pc EXCEPT ![f] = "done"]
              /\ UNCHANGED <<request, yielded>>
         [] step.kind = "raise" ->
              /\ outcome' = [outcome EXCEPT ![f] = [kind |-> "raised", error |-> step.error]]
              /\ pc' = [pc EXCEPT ![f] = "failed"]
              /\ UNCHANGED <<request, yielded>>
    /\ UNCHANGED <<client, server, wire, response, sent, received>>

\* Faulty variant: the request is sent and the driver does not wait for the answer
Send_no_wait(f, transport) ==
    /\ pc[f] = "send"
    /\ wire' = [wire EXCEPT ![transport] = @ \cup {[fetch |-> f, n |-> Len(sent[f]) + 1,
                                                      request |-> request[f]]}]
    /\ sent' = Append1(sent, f, [transport |-> transport, request |-> request[f]])
    /\ UNCHANGED <<client, server, pc, gen, request, response, outcome, yielded, received, resumed>>

sync_send_no_wait(f) == f \in SyncFetches /\ Send_no_wait(f, client.sync_client)

\* Faulty variant: the result of i.send is dropped: the first request is sent again
Send_first(f, transport) ==
    /\ pc[f] = "send"
    /\ wire' = [wire EXCEPT ![transport] = @ \cup {[fetch |-> f, n |-> Len(sent[f]) + 1,
                                                      request |-> yielded[f][1]]}]
    /\ sent' = Append1(sent, f, [transport |-> transport, request |-> yielded[f][1]])
    /\ pc' = [pc EXCEPT ![f] = "await"]
    /\ UNCHANGED <<client, server, gen, request, response, outcome, yielded, received, resumed>>

async_send_first(f) == f \in AsyncFetches /\ Send_first(f, client.async_client)

\* Faulty variant: an exception of send is caught and the request is sent again
SendRaises_retries(f, transport) ==
    /\ pc[f] = "await"
    /\ \E m \in wire[transport], e \in TransportErrors :
        /\ m.fetch = f
        /\ wire' = [wire EXCEPT ![transport] = @ \ {m}]
        /\ received' = Append1(received, f, [raised |-> e])
    /\ pc' = [pc EXCEPT ![f] = "send"]
    /\ UNCHANGED <<client, server, gen, request, response, outcome, yielded, sent, resumed>>

sync_send_raises_retries(f) ==
    f \in SyncFetches /\ SendRaises_retries(f, client.sync_client)

\* Faulty variant: the generator is resumed with the first response again
sync_resume_stale(f) == f \in SyncFetches /\ Resume(f, received[f][1])

\* Faulty variant: an exception of send is caught and an empty list returned
SendRaises_returns(f, transport) ==
    /\ pc[f] = "await"
    /\ \E m \in wire[transport], e \in TransportErrors :
        /\ m.fetch = f
        /\ wire' = [wire EXCEPT ![transport] = @ \ {m}]
        /\ received' = Append1(received, f, [raised |-> e])
        /\ outcome' = [outcome EXCEPT ![f] = [kind |-> "returned", value |-> <<>>]]
    /\ pc' = [pc EXCEPT ![f] = "done"]
    /\ UNCHANGED <<client, server, gen, request, response, yielded, sent, resumed>>

async_send_raises_returns(f) ==
    f \in AsyncFetches /\ SendRaises_returns(f, client.async_client)

\* Faulty variant: inner has no `except StopIteration`, so the generator's
\* return leaves inner as an exception and its value is lost
Resume_no_except(f, resp) ==
    LET step == _list_people_send(gen[f], resp) IN
    /\ pc[f] = "resume"
    /\ step.kind = "yield" => Len(yielded[f]) < MaxRequests
    /\ resumed' = Append1(resumed, f, resp)
    /\ gen' = [gen EXCEPT ![f] = step.gen]
    /\ CASE step.kind = "yield" ->
              /\ request' = [request EXCEPT ![f] = step.value]
              /\ yielded' = Append1(yielded, f, step.value)
              /\ pc' = [pc EXCEPT ![f] = "send"]
              /\ UNCHANGED outcome
         [] step.kind = "return" ->
              /\ outcome' = [outcome EXCEPT ![f] = [kind |-> "raised",
                                                     error |-> [kind |-> "StopIteration"]]]
              /\ pc' = [pc EXCEPT ![f] = "failed"]
              /\ UNCHANGED <<request, yielded>>
         [] step.kind = "raise" ->
              /\ outcome' = [outcome EXCEPT ![f] = [kind |-> "raised", error |-> step.error]]
              /\ pc' = [pc EXCEPT ![f] = "failed"]
              /\ UNCHANGED <<request, yielded>>
    /\ UNCHANGED <<client, server, wire, response, sent, received>>

async_resume_no_except(f) == f \in AsyncFetches /\ Resume_no_except(f, response[f])

\* Faulty variant: the blocking driver sends through the non-blocking client
sync_send_through_async(f) == f \in SyncFetches /\ Send(f, client.async_client)

\* _sync_wrapper.inner, over self.sync_client
sync_call(f) == f \in SyncFetches /\ Call(f)
sync_send(f) == f \in SyncFetches /\ Send(f, client.sync_client)
sync_reply(f) == f \in SyncFetches /\ Reply(f, client.sync_client)
sync_send_raises(f) == f \in SyncFetches /\ SendRaises(f, client.sync_client)
sync_resume(f) == f \in SyncFetches /\ Resume(f, response[f])

\* _async_wrapper.inner, over self.async_client
async_call(f) == f \in AsyncFetches /\ Call(f)
async_send(f) == f \in AsyncFetches /\ Send(f, client.async_client)
async_reply(f) == f \in AsyncFetches /\ Reply(f, client.async_client)
async_send_raises(f) == f \in AsyncFetches /\ SendRaises(f, client.async_client)
async_resume(f) == f \in AsyncFetches /\ Resume(f, response[f])

Next ==
    \E f \in Fetches :
        \/ sync_call(f)
        \/ sync_send(f)
        \/ sync_reply(f)
        \/ sync_send_raises(f)
        \/ sync_resume(f)
        \/ async_call(f)
        \/ async_send(f)
        \/ async_reply(f)
        \/ async_send_raises(f)
        \/ async_resume(f)

\* The steps of one fetch.
Run(f) ==
    \/ sync_call(f) \/ sync_send(f) \/ sync_reply(f)
    \/ sync_send_raises(f) \/ sync_resume(f)
    \/ async_call(f) \/ async_send(f) \/ async_reply(f)
    \/ async_send_raises(f) \/ async_resume(f)

Spec == Init /\ [][Next]_vars

SpecConcurrent == InitConcurrent /\ [][Next]_vars

\* A driver that was called keeps running (inner is a plain loop, and the
\* task of the non-blocking one is scheduled again once its send is answered),
\* and the transport ends every send, with a response or with an error.
FairSpec == Spec /\ \A f \in Fetches : WF_vars(Run(f))

\* ============================================================ properties
Terminated(f) == pc[f] \in {"done", "failed"}

IsResponse(ev) == "status_code" \in DOMAIN ev

Successful(ev) == IsResponse(ev) /\ ev.status_code >= 200 /\ ev.status_code <= 299

Complete(entry) == "name" \in DOMAIN entry /\ "homeworld" \in DOMAIN entry

\* A successful response whose body has both fields and whose entries all
\* have both required fields.
Decodable(ev) ==
    /\ Successful(ev)
    /\ "results" \in DOMAIN ev.content
    /\ \A n \in 1..Len(ev.content.results) : Complete(ev.content.results[n])

\* The records of one page, entry by entry.
RecordsOf(ev) ==
    [n \in 1..Len(ev.content.results) |->
        [name |-> ev.content.results[n].name,
         homeworld |-> ev.content.results[n].homeworld]]

RECURSIVE RecordsOfAll(_)
RecordsOfAll(evs) ==
    IF evs = <<>> THEN <<>>
    ELSE RecordsOfAll(SubSeq(evs, 1, Len(evs) - 1)) \o RecordsOf(evs[Len(evs)])

RECURSIVE SumOfSizes(_)
SumOfSizes(evs) ==
    IF evs = <<>> THEN 0
    ELSE Len(evs[1].content.results) + SumOfSizes(Tail(evs))

\* N >= 1 decodable pages, page k's `next` naming the request that page k+1
\* answers, the last page's `next` null.
LinkedChain(evs) ==
    /\ Len(evs) >= 1
    /\ \A k \in 1..Len(evs) : Decodable(evs[k]) /\ "next" \in DOMAIN evs[k].content
    /\ \A k \in 1..(Len(evs) - 1) : evs[k].content.next = evs[k + 1].request.url
    /\ evs[Len(evs)].content.next = Null

\* C1: over a chain of N >= 1 successful pages linked by `next` and ended by
\* a null `next`, list_people returns the records of page 1, ..., page N
\* concatenated, each page in the order of its results array; the length is
\* the sum of the page sizes.  And whatever list_people returns is the
\* concatenation of the pages it received.
C1_ReturnsConcatenation ==
    \A f \in SyncFetches :
        /\ (LinkedChain(received[f]) /\ Len(resumed[f]) = Len(received[f]))
            => /\ pc[f] = "done"
               /\ outcome[f] = [kind |-> "returned", value |-> RecordsOfAll(received[f])]
               /\ Len(outcome[f].value) = SumOfSizes(received[f])
        /\ pc[f] = "done"
            => outcome[f] = [kind |-> "returned", value |-> RecordsOfAll(received[f])]

C1_Witness ==
    /\ pc["list_people"] = "done"
    /\ Len(received["list_people"]) = 3
    /\ LinkedChain(received["list_people"])
    /\ received["list_people"][1].content.results = <<Leia, Luke>>
    /\ received["list_people"][2].content.results = <<>>
    /\ received["list_people"][3].content.results = <<Luke, Leia>>
    /\ Len(outcome["list_people"].value) = 4

\* The requests a fetch handed to its transport, in order.
SentRequests(f) == [k \in 1..Len(sent[f]) |-> sent[f][k].request]

Min(a, b) == IF a <= b THEN a ELSE b

\* C2: given the same responses (transport errors among them) the blocking
\* and the non-blocking driver issue the same requests, one by one, and once
\* both have ended on the same sequence of responses they have the same
\* outcome: the same collection, or the same failure at the same page.
C2_DriversEquivalent ==
    \A s \in SyncFetches, a \in AsyncFetches :
        /\ \A k \in 1..Min(Len(sent[s]), Len(sent[a])) :
              (\A j \in 1..(k - 1) : received[s][j] = received[a][j])
                  => sent[s][k].request = sent[a][k].request
        /\ (Terminated(s) /\ Terminated(a) /\ received[s] = received[a])
              => /\ SentRequests(s) = SentRequests(a)
                 /\ outcome[s] = outcome[a]
                 /\ pc[s] = pc[a]

C2_Witness ==
    /\ pc["list_people"] = "failed"
    /\ pc["list_people_async"] = "failed"
    /\ received["list_people"] = received["list_people_async"]
    /\ Len(received["list_people"]) = 3
    /\ outcome["list_people"].error.kind = "IterableValidationError"
    /\ gen["list_people_async"].people = <<Person("Luke", "Tatooine"), Person("Leia", "Alderaan")>>

\* C3: when the k-th response has a non-success status the fetch has failed
\* with an HTTPStatusError that carries that status and the URL of the k-th
\* request; nothing was returned, and the k-th request is the last one.
C3_NonSuccessFails ==
    \A f \in Fetches : \A k \in 1..Len(resumed[f]) :
        (resumed[f][k].status_code < 200 \/ resumed[f][k].status_code > 299)
            => /\ pc[f] = "failed"
               /\ outcome[f] = [kind |-> "raised",
                                error |-> [kind |-> "HTTPStatusError",
                                           status |-> resumed[f][k].status_code,
                                           url |-> sent[f][k].request.url]]
               /\ k = Len(resumed[f])
               /\ Len(sent[f]) = k
               /\ Len(yielded[f]) = k
               /\ \A t \in Transports : \A m \in wire[t] : m.fetch # f

C3_Witness ==
    /\ pc["list_people"] = "failed"
    /\ Len(resumed["list_people"]) = 3
    /\ resumed["list_people"][3].status_code = 301
    /\ gen["list_people"].people # <<>>
    /\ outcome["list_people"].error.url = PageUrl(3)

\* Requests of fetch f inside a transport.
InFlight(f) == UNION {{m \in wire[t] : m.fetch = f} : t \in Transports}

\* C4: a fetch has at most one request unanswered; a transport is asked to
\* send the (k+1)-th request only after the k-th response was received and
\* sent into the generator.
C4_SingleInFlight ==
    \A f \in Fetches :
        /\ Cardinality(InFlight(f)) <= 1
        /\ Len(sent[f]) <= Len(resumed[f]) + 1
        /\ Len(sent[f]) <= Len(received[f]) + 1
        /\ InFlight(f) # {} => /\ pc[f] = "await"
                               /\ Len(received[f]) = Len(sent[f]) - 1
                               /\ Len(resumed[f]) = Len(sent[f]) - 1

C4_Witness ==
    /\ Cardinality(InFlight("list_people")) = 1
    /\ Cardinality(InFlight("list_people_async")) = 1
    /\ Len(sent["list_people"]) = 3
    /\ Len(sent["list_people_async"]) = 2

HasIncompleteEntry(ev) ==
    /\ Successful(ev)
    /\ "results" \in DOMAIN ev.content
    /\ \E n \in 1..Len(ev.content.results) : ~Complete(ev.content.results[n])

\* C6: when the k-th page is successful and has an entry without name or
\* homeworld, the fetch has failed with the decode error, returned nothing,
\* and the k-th request is the last one, whatever the page's `next` is.
C6_MissingFieldFails ==
    \A f \in Fetches : \A k \in 1..Len(resumed[f]) :
        HasIncompleteEntry(resumed[f][k])
            => /\ pc[f] = "failed"
               /\ outcome[f] = [kind |-> "raised",
                                error |-> [kind |-> "IterableValidationError"]]
               /\ k = Len(resumed[f])
               /\ Len(sent[f]) = k
               /\ Len(yielded[f]) = k
               /\ InFlight(f) = {}

C6_Witness ==
    /\ pc["list_people_async"] = "failed"
    /\ Len(resumed["list_people_async"]) = 2
    /\ resumed["list_people_async"][2].content =
          [results |-> <<Luke, NoHomeworld>>, next |-> PageUrl(3)]
    /\ Len(sent["list_people_async"]) = 2

\* C7: when send raises (or the call or task is cancelled) while the k-th
\* request is in flight, the fetch has failed with that very error, the
\* generator was resumed k-1 times and never again, the k-th request is the
\* last one; and a collection reaches the caller only as the generator's
\* return value: the whole accumulator after a page with a falsy `next`.
C7_SendErrorPropagates ==
    \A f \in Fetches :
        /\ \A k \in 1..Len(received[f]) :
              ~IsResponse(received[f][k])
                  => /\ pc[f] = "failed"
                     /\ outcome[f] = [kind |-> "raised",
                                      error |-> [kind |-> received[f][k].raised]]
                     /\ k = Len(received[f])
                     /\ Len(resumed[f]) = k - 1
                     /\ Len(sent[f]) = k
                     /\ Len(yielded[f]) = k
                     /\ InFlight(f) = {}
        /\ outcome[f].kind = "returned"
              => /\ pc[f] = "done"
                 /\ Len(resumed[f]) = Len(yielded[f])
                 /\ \A k \in 1..Len(received[f]) : IsResponse(received[f][k])
                 /\ outcome[f].value = gen[f].people
                 /\ outcome[f].value = RecordsOfAll(resumed[f])
                 /\ resumed[f][Len(resumed[f])].content.next \in {Null, ""}
        /\ pc[f] = "failed" <=> outcome[f].kind = "raised"
        /\ pc[f] = "done" <=> outcome[f].kind = "returned"

C7_Witness ==
    /\ pc["list_people_async"] = "failed"
    /\ Len(received["list_people_async"]) = 3
    /\ received["list_people_async"][3] = [raised |-> "Cancelled"]
    /\ outcome["list_people_async"].error = [kind |-> "Cancelled"]
    /\ Len(gen["list_people_async"].people) = 4
    /\ pc["list_people"] = "failed"
    /\ Len(received["list_people"]) = 2
    /\ received["list_people"][2] = [raised |-> "ConnectError"]

\* C8: the k-th value sent into the generator is the response the transport
\* gave for the k-th request the generator yielded; the generator is resumed
\* at most once per yielded request and never before its response arrived.
C8_ResumeMatchesRequest ==
    \A f \in Fetches :
        /\ Len(resumed[f]) <= Len(yielded[f])
        /\ Len(yielded[f]) <= Len(resumed[f]) + 1
        /\ Len(resumed[f]) <= Len(received[f])
        /\ \A k \in 1..Len(resumed[f]) :
              /\ IsResponse(resumed[f][k])
              /\ resumed[f][k] = received[f][k]
              /\ resumed[f][k].request = yielded[f][k]
              /\ sent[f][k].request = yielded[f][k]

C8_Witness ==
    /\ Len(resumed["list_people"]) = 3
    /\ Len(resumed["list_people_async"]) = 2
    /\ pc["list_people_async"] = "send"
    /\ resumed["list_people"][3].request.url = PageUrl(3)
    /\ resumed["list_people"][2] # resumed["list_people"][1]

C10_RequestsFollowNext ==
    \A f \in Fetches :
        /\ Len(sent[f]) >= 1
              => sent[f][1].request = [method |-> "GET", url |-> "https://swapi.dev/api/people"]
        /\ \A k \in 2..Len(sent[f]) :
              sent[f][k].request = [method |-> "GET", url |-> received[f][k - 1].content.next]
        /\ (LinkedChain(received[f]) /\ Terminated(f))
              => /\ Len(sent[f]) = Len(received[f])
                 /\ \A k \in 1..Len(sent[f]) : sent[f][k].request = received[f][k].request
                 /\ \A j, k \in 1..Len(sent[f]) :
                       j # k => sent[f][j].request.url # sent[f][k].request.url

C10_Witness ==
    /\ pc["list_people"] = "done"
    /\ Len(sent["list_people"]) = 3
    /\ sent["list_people"][2].request.url = PageUrl(2)
    /\ sent["list_people"][3].request.url = PageUrl(3)
    /\ received["list_people"][3].content.next = Null

\* The state of a run in the terms of the drivers' state machine.
Phase(p) ==
    CASE p = "idle" -> "Idle"
      [] p \in {"send", "await"} -> "RequestPending"
      [] p = "resume" -> "ResponseReceived"
      [] p = "done" -> "Completed"
      [] p = "failed" -> "Failed"
      [] OTHER -> "NotCalled"

\* What one step may do to the run of fetch f.
C11_Step(f) ==
    LET from == Phase(pc[f])
        to == Phase(pc'[f])
    IN
    /\ from = "Idle" =>
          /\ to \in {"Idle", "RequestPending"}
          /\ to = "RequestPending" =>
                /\ yielded'[f] = <<[method |-> "GET", url |-> "https://swapi.dev/api/people"]>>
                /\ received'[f] = <<>> /\ resumed'[f] = <<>>
    /\ from = "RequestPending" => to \in {"RequestPending", "ResponseReceived", "Failed"}
    /\ from = "ResponseReceived" =>
          to \in {"ResponseReceived", "RequestPending", "Completed", "Failed"}
    /\ from = "NotCalled" => to = "NotCalled"
    /\ received'[f] # received[f] => pc[f] = "await"
    /\ (received'[f] # received[f] /\ to = "ResponseReceived")
          => response'[f].request = sent[f][Len(sent[f])].request
    /\ yielded'[f] # yielded[f] => from \in {"Idle", "ResponseReceived"}
    /\ from \in {"Completed", "Failed"} =>
          /\ to = from
          /\ yielded'[f] = yielded[f]
          /\ sent'[f] = sent[f]
          /\ received'[f] = received[f]
          /\ resumed'[f] = resumed[f]
          /\ gen'[f] = gen[f]
          /\ outcome'[f] = outcome[f]

\* C11: every run starts in Idle; Idle is left only by emitting the first
\* request; a response is received only while a request is pending; a
\* received response leads to the next request, to Completed or to Failed
\* (a send that raises leads from RequestPending to Failed); Completed and
\* Failed are terminal: no request, no response, no change of the
\* accumulator after them.
C11_StateMachine ==
    /\ \A f \in Fetches : Phase(pc[f]) \in {"Idle", "NotCalled"}
    /\ [][\A f \in Fetches : C11_Step(f)]_vars

C11_Witness ==
    /\ pc["list_people"] = "done"
    /\ Len(resumed["list_people"]) = 3
    /\ pc["list_people_async"] = "failed"
    /\ Len(resumed["list_people_async"]) = 1
    /\ Len(received["list_people_async"]) = 2

\* The k-th response of fetch f names, as `next`, a URL the fetch has
\* already requested: the pages form a cycle.
Revisits(f, k) ==
    /\ IsResponse(received[f][k])
    /\ "next" \in DOMAIN received[f][k].content
    /\ \E j \in 1..k : sent[f][j].request.url = received[f][k].content.next

Cyclic(f) == \E k \in 1..Len(received[f]) : Revisits(f, k)

\* C12: under FairSpec every fetch whose pages do not form a cycle
\* eventually ends, Completed or Failed; and a fetch whose responses form a
\* linked chain of N decodable pages ended by a null `next` ends Completed,
\* after the N-th response.
C12_Terminates ==
    /\ <>(\A f \in Fetches : pc[f] = "never" \/ Terminated(f) \/ Cyclic(f))
    /\ [](\A f \in Fetches :
            (LinkedChain(received[f]) /\ (Terminated(f) \/ Cyclic(f)))
                => (pc[f] = "done" /\ LinkedChain(resumed[f])))

C12_Witness ==
    /\ pc["list_people"] = "done"
    /\ pc["list_people_async"] = "done"
    /\ Len(resumed["list_people"]) = 3
    /\ LinkedChain(resumed["list_people_async"])
    /\ ~Cyclic("list_people")

\* The first n elements of a sequence.
Prefix(seq, n) == SubSeq(seq, 1, n)

IsPrefixOf(a, b) == Len(a) <= Len(b) /\ Prefix(b, Len(a)) = a

\* C13: the status is validated before the body is decoded: a non-success
\* response adds no record to the accumulator, and it fails the fetch with
\* HTTPStatusError also when its body could not be decoded (no `results`, or
\* an entry without a required field).
C13_StatusBeforeDecode ==
    \A f \in Fetches : \A k \in 1..Len(resumed[f]) :
        ~Successful(resumed[f][k])
            => /\ k = Len(resumed[f])
               /\ gen[f].people = RecordsOfAll(Prefix(resumed[f], k - 1))
               /\ outcome[f].kind = "raised"
               /\ outcome[f].error.kind = "HTTPStatusError"

C13_Witness ==
    /\ pc["list_people"] = "failed"
    /\ Len(resumed["list_people"]) = 2
    /\ resumed["list_people"][2].status_code = 404
    /\ resumed["list_people"][2].content = [results |-> <<NoName>>, next |-> Null]
    /\ gen["list_people"].people = <<Person("Luke", "Tatooine")>>
    /\ outcome["list_people"].error.kind = "HTTPStatusError"

\* The responses sent into the generator that it accepted: successful, with
\* a `results` array whose entries all decode.
Accepted(f) == SelectSeq(resumed[f], Decodable)

\* C14: the accumulator is the in-order concatenation of the records of
\* exactly the pages accepted so far; it is empty until the first response
\* is accepted; every step leaves the old accumulator a prefix of the new.
C14_Accumulator ==
    /\ [](\A f \in Fetches :
            gen[f] # None
                => /\ gen[f].people = RecordsOfAll(Accepted(f))
                   /\ Accepted(f) = <<>> => gen[f].people = <<>>
                   /\ Len(gen[f].people) = SumOfSizes(Accepted(f)))
    /\ [][\A f \in Fetches :
            (gen[f] # None => gen'[f] # None /\ IsPrefixOf(gen[f].people, gen'[f].people))]_vars

C14_Witness ==
    /\ pc["list_people"] = "await"
    /\ Len(resumed["list_people"]) = 2
    /\ gen["list_people"].people =
          <<Person("Leia", "Alderaan"), Person("Luke", "Tatooine"), Person("Luke", "Tatooine")>>
    /\ pc["list_people_async"] = "failed"
    /\ outcome["list_people_async"].error = [kind |-> "KeyError", key |-> "next"]
    /\ Len(gen["list_people_async"].people) = 4

\* Everything fetch f owns.
Local(f) ==
    <<pc[f], gen[f], request[f], response[f], outcome[f],
      yielded[f], sent[f], received[f], resumed[f]>>

\* The outcome of fetch f run by itself against the server: the generator is
\* driven from request to request, each answered by the server's page for
\* its URL, or by the error the fetch's own k-th send raised.
RECURSIVE Alone(_, _, _, _)
Alone(f, g, req, k) ==
    IF ~IsResponse(received[f][k])
    THEN [kind |-> "raised", error |-> [kind |-> received[f][k].raised]]
    ELSE
    LET page == server[req.url]
        step == _list_people_send(g, [status_code |-> page.status_code,
                                      content |-> page.content,
                                      request |-> req])
    IN
    CASE step.kind = "yield" -> Alone(f, step.gen, step.value, k + 1)
      [] step.kind = "return" -> [kind |-> "returned", value |-> step.value]
      [] step.kind = "raise" -> [kind |-> "raised", error |-> step.error]

\* C15: two fetches on one client, their steps interleaved in any order, do
\* not interfere: every response a fetch receives answers its own request of
\* the same position and is the server's page for it; cursor and accumulator
\* depend on the fetch's own responses only; a fetch that has ended has the
\* outcome it has when run alone; and no step changes what two fetches own.
C15_NoInterference ==
    /\ [](\A f \in Fetches :
            /\ \A k \in 1..Len(received[f]) :
                  IsResponse(received[f][k])
                      => /\ received[f][k].request = sent[f][k].request
                         /\ received[f][k].status_code = server[sent[f][k].request.url].status_code
                         /\ received[f][k].content = server[sent[f][k].request.url].content
            /\ \A t \in Transports : \A m \in wire[t] :
                  m.fetch = f => m.request = sent[f][Len(sent[f])].request
            /\ gen[f] # None
                  => /\ gen[f].people = RecordsOfAll(Accepted(f))
                     /\ pc[f] \in {"send", "await", "resume"}
                           => gen[f].url = yielded[f][Len(yielded[f])].url
            /\ Terminated(f)
                  => outcome[f] = Alone(f, _list_people_next.gen, _list_people_next.value, 1))
    /\ [][\A f, g \in Fetches :
            (f # g /\ Local(f)' # Local(f)) => Local(g)' = Local(g)]_vars

C15_Witness ==
    /\ Cardinality(wire["httpx.AsyncClient"]) = 2
    /\ Len(sent["list_people_async"]) = 3
    /\ Len(gen["list_people_async"].people) = 4
    /\ Len(sent["list_people_async_2"]) = 2
    /\ Len(gen["list_people_async_2"].people) = 2

\* C16: the client is what it was after construction in every state; the
\* blocking driver sends through sync_client only and the non-blocking one
\* through async_client only; cursor and accumulator are in the generator of
\* the fetch (gen), nowhere in the client.
C16_ClientUnchanged ==
    /\ client = [sync_client |-> "httpx.Client", async_client |-> "httpx.AsyncClient"]
    /\ DOMAIN client = {"sync_client", "async_client"}
    /\ \A f \in SyncFetches :
          /\ \A k \in 1..Len(sent[f]) : sent[f][k].transport = "httpx.Client"
          /\ \A m \in wire["httpx.AsyncClient"] : m.fetch # f
    /\ \A f \in AsyncFetches :
          /\ \A k \in 1..Len(sent[f]) : sent[f][k].transport = "httpx.AsyncClient"
          /\ \A m \in wire["httpx.Client"] : m.fetch # f
    /\ \A f \in Fetches : gen[f] # None => DOMAIN gen[f] = {"url", "people"}

C16_Witness ==
    /\ pc["list_people"] = "done"
    /\ Len(sent["list_people"]) = 3
    /\ pc["list_people_async"] = "await"
    /\ Len(sent["list_people_async"]) = 2
    /\ wire["httpx.AsyncClient"] # {}
    /\ wire["httpx.Client"] = {}

\* C17: a successful page with an empty `results` array and a non-empty URL
\* as `next` does not end the walk: the request for `next` is the next one
\* yielded; and for every decodable page with a `next`, the walk ends there
\* exactly when `next` is falsy, whatever the size of `results`.
C17_EmptyPageContinues ==
    \A f \in Fetches : \A k \in 1..Len(resumed[f]) :
        (Decodable(resumed[f][k]) /\ "next" \in DOMAIN resumed[f][k].content)
            => LET results == resumed[f][k].content.results
                   next == resumed[f][k].content.next
               IN
               /\ (results = <<>> /\ next \notin {Null, ""})
                     => /\ Len(yielded[f]) > k
                        /\ yielded[f][k + 1] = [method |-> "GET", url |-> next]
                        /\ pc[f] # "done" \/ Len(resumed[f]) > k
               /\ (pc[f] = "done" /\ k = Len(resumed[f])) <=> next \in {Null, ""}
               /\ next \notin {Null, ""} => Len(yielded[f]) > k

C17_Witness ==
    /\ pc["list_people"] = "done"
    /\ Len(resumed["list_people"]) = 3
    /\ resumed["list_people"][1].content = [results |-> <<>>, next |-> PageUrl(2)]
    /\ resumed["list_people"][2].content = [results |-> <<>>, next |-> PageUrl(3)]
    /\ outcome["list_people"].value = <<Person("Luke", "Tatooine")>>

\* C18: once a successful page names, as `next`, a URL the fetch has already
\* requested, the fetch is never Completed: the request for that URL is
\* yielded again, the page comes again and its records are appended again
\* (only an error of send ends such a fetch).
C18_CycleNeverCompletes ==
    \A f \in Fetches : \A k \in 1..Len(resumed[f]) :
        (Decodable(resumed[f][k]) /\ Revisits(f, k))
            => /\ pc[f] # "done"
               /\ outcome[f].kind # "returned"
               /\ Len(yielded[f]) > k
               /\ yielded[f][k + 1].url = resumed[f][k].content.next
               /\ pc[f] = "failed" => ~IsResponse(received[f][Len(received[f])])
               /\ \A j \in 1..k : \A n \in (k + 1)..Len(resumed[f]) :
                     sent[f][j].request.url = sent[f][n].request.url
                         => /\ resumed[f][n].content = resumed[f][j].content
                            /\ Len(gen[f].people) >= 2 * Len(resumed[f][j].content.results)
               /\ gen[f].people = RecordsOfAll(resumed[f])

C18_Witness ==
    /\ pc["list_people"] = "resume"
    /\ Len(resumed["list_people"]) = 2
    /\ Len(received["list_people"]) = 3
    /\ resumed["list_people"][1].content = [results |-> <<Luke, Leia>>, next |-> PageUrl(1)]
    /\ gen["list_people"].people =
          <<Person("Luke", "Tatooine"), Person("Leia", "Alderaan"),
            Person("Luke", "Tatooine"), Person("Leia", "Alderaan")>>

\* C19: a successful, decodable page whose `next` is the empty string
\* completes the fetch with the records accumulated so far, and no request
\* for the empty URL is ever yielded or sent.
C19_EmptyStringEnds ==
    \A f \in Fetches :
        /\ \A k \in 1..Len(resumed[f]) :
              (/\ Decodable(resumed[f][k])
               /\ "next" \in DOMAIN resumed[f][k].content
               /\ resumed[f][k].content.next = "")
                  => /\ pc[f] = "done"
                     /\ outcome[f] = [kind |-> "returned", value |-> RecordsOfAll(resumed[f])]
                     /\ k = Len(resumed[f])
                     /\ Len(sent[f]) = k
                     /\ Len(yielded[f]) = k
        /\ \A k \in 1..Len(yielded[f]) : yielded[f][k].url # ""
        /\ \A k \in 1..Len(sent[f]) : sent[f][k].request.url # ""

C19_Witness ==
    /\ pc["list_people_async"] = "done"
    /\ Len(resumed["list_people_async"]) = 2
    /\ resumed["list_people_async"][2].content = [results |-> <<Leia, Luke>>, next |-> ""]
    /\ Len(outcome["list_people_async"].value) = 3

====
